---- MODULE Spec2Model ----
(***************************************************************************)
(* Model of the vanvitelli agent core:                                     *)
(*   - the versioned gatherers registry and its builder                    *)
(*     (src/gatherers/registry.rs),                                        *)
(*   - the request aggregation helper and the events policy                *)
(*     (src/events/policy.rs, src/events/protobuf_events_policy.rs),       *)
(*   - the RabbitMQ consumer (src/events/rabbitmq_consumer.rs).            *)
(*                                                                         *)
(* Strings whose bytes matter (gatherer names, versions, references) are   *)
(* sequences of byte values, so that split("@") and the ordering used by   *)
(* sort() are computed, not assumed.                                       *)
(***************************************************************************)
EXTENDS Integers, Sequences, FiniteSets, TLC

VARIABLES
    \* ---- registry and builder ----
    builder,        \* GatherersRegistryBuilder.gatherers: Vec<(name, version, Arc)>
    addCalls,       \* history: every add_gatherer call made so far, in order
    registry,       \* GatherersRegistry.gatherers: name -> (version -> handle)
    regPhase,       \* "building" | "built" | "resolved" | "inspected"
    reference,      \* the argument of the get_gatherer call made
    resolved,       \* the Result returned by get_gatherer
    inspected,      \* the Vec<String> returned by inspect_gatherers
    \* ---- map_fact_gathering_request_from_event ----
    aggInput,       \* the arguments: event_requests, execution_id, group_id
    aggPhase,       \* "input" | "mapped"
    aggResult,      \* the FactsGatheringRequest returned
    \* ---- events policy and RabbitMQ consumer ----
    policy,         \* RabbitMqConsumer.policy: the implementation it holds
    queue,          \* deliveries the channel holds for the consumer, in order
    nextTag,        \* the delivery tag of the next delivery
    pc,             \* consume: "idle" | "acking" | "panicked"
    current,        \* the delivery consume is working on
    handled,        \* history: the handle_event calls made, with their outcome
    acks            \* history: the basic_ack calls made

regVars ==
    <<builder, addCalls, registry, regPhase, reference, resolved, inspected>>
aggVars == <<aggInput, aggPhase, aggResult>>

evVars == <<policy, queue, nextTag, pc, current, handled, acks>>

vars == <<regVars, aggVars, evVars>>

----------------------------------------------------------------------------
(* Bounds *)

\* add_gatherer calls made before build_registry
MaxAdds == 3

\* targets passed to map_fact_gathering_request_from_event
MaxTargets == 2

\* fact requests of one target
MaxRequests == 2

\* targets of one delivered gathering-request event
MaxEventTargets == 2

\* messages the broker delivers to the consumer
MaxDeliveries == 2

----------------------------------------------------------------------------
(* Byte strings *)

\* the byte '@', the separator of split("@")
SEPARATOR == 64

\* "g", "h", "other", and a name that itself holds the separator: "g@v1"
NameG     == <<103>>
NameH     == <<104>>
NameOther == <<111, 116, 104, 101, 114>>
NameGAtV1 == <<103, 64, 118, 49>>

\* "v1", "v2", "v9", "v10"
V1  == <<118, 49>>
V2  == <<118, 50>>
V9  == <<118, 57>>
V10 == <<118, 49, 48>>

\* the names and versions add_gatherer is called with
AddNames == {NameG, NameH, NameGAtV1}
Versions == {V1, V2, V9, V10}

\* "<name>@<version>"
Join(name, version) == name \o <<SEPARATOR>> \o version

\* the references get_gatherer is called with: bare names (registered or
\* not, and the empty string), name@version, and references with more than
\* one separator ("other@v2@v2", "g@v1@<version>", "g@@v1")
References ==
    AddNames \cup {NameOther, <<>>}
    \cup {Join(n, v) : n \in AddNames \cup {NameOther}, v \in Versions}
    \cup {Join(Join(NameOther, V2), V2), Join(Join(NameG, <<>>), V1)}

\* number of separators in a string
RECURSIVE CountSep(_)
CountSep(s) ==
    IF s = <<>> THEN 0
    ELSE (IF Head(s) = SEPARATOR THEN 1 ELSE 0) + CountSep(Tail(s))

\* str::split("@"): the pieces between the separators, one more than the
\* number of separators (the empty string gives one empty piece)
RECURSIVE split(_)
split(s) ==
    IF \A i \in 1..Len(s) : s[i] /= SEPARATOR
    THEN <<s>>
    ELSE LET i == CHOOSE k \in 1..Len(s) :
                      /\ s[k] = SEPARATOR
                      /\ \A j \in 1..(k - 1) : s[j] /= SEPARATOR
         IN  <<SubSeq(s, 1, i - 1)>> \o split(SubSeq(s, i + 1, Len(s)))

\* StrLess as a version-aware order would have it: a shorter string first,
\* so that "v9" sorts before "v10"
RECURSIVE StrLess_ShorterFirst(_, _)
StrLess_ShorterFirst(a, b) ==
    IF Len(a) /= Len(b) THEN Len(a) < Len(b)
    ELSE IF a = <<>> THEN FALSE
    ELSE IF Head(a) /= Head(b) THEN Head(a) < Head(b)
    ELSE StrLess_ShorterFirst(Tail(a), Tail(b))

\* the order of String (Ord): byte-wise lexicographic, a proper prefix first
RECURSIVE StrLess(_, _)
StrLess(a, b) ==
    IF a = <<>> THEN b /= <<>>
    ELSE IF b = <<>> THEN FALSE
    ELSE IF Head(a) /= Head(b) THEN Head(a) < Head(b)
    ELSE StrLess(Tail(a), Tail(b))

\* SortKeys without the sort taking effect on the order wanted: descending
RECURSIVE SortKeys_Descending(_)
SortKeys_Descending(S) ==
    IF S = {} THEN <<>>
    ELSE LET m == CHOOSE x \in S : \A y \in S \ {x} : StrLess(y, x)
         IN  <<m>> \o SortKeys_Descending(S \ {m})

\* Vec<String>::sort() of the keys of a map (distinct strings): ascending
RECURSIVE SortKeys(_)
SortKeys(S) ==
    IF S = {} THEN <<>>
    ELSE LET m == CHOOSE x \in S : \A y \in S \ {x} : StrLess(x, y)
         IN  <<m>> \o SortKeys(S \ {m})

----------------------------------------------------------------------------
(* HashMap *)

EmptyMap == [k \in {} |-> 0]

\* Insert as an insert that keeps the value of an existing key
Insert_KeepExisting(m, k, v) ==
    [x \in (DOMAIN m) \cup {k} |-> IF x \in DOMAIN m THEN m[x] ELSE v]

\* HashMap::insert: the value of an existing key is replaced
Insert(m, k, v) == [x \in (DOMAIN m) \cup {k} |-> IF x = k THEN v ELSE m[x]]

----------------------------------------------------------------------------
(* Results *)

Ok(h) == [kind |-> "Ok", handle |-> h, arg |-> <<>>]
GathererNotFoundError(s) ==
    [kind |-> "GathererNotFoundError", handle |-> 0, arg |-> s]
GathererNameAndVersionError(s) ==
    [kind |-> "GathererNameAndVersionError", handle |-> 0, arg |-> s]
NoResult == [kind |-> "None", handle |-> 0, arg |-> <<>>]

----------------------------------------------------------------------------
(* GatherersRegistry *)

\* extract_version_and_gatherer_name without the check of parts.len() != 2:
\* the pieces after the second are dropped
extract_version_and_gatherer_name_NoLenCheck(gatherer_name) ==
    LET parts == split(gatherer_name) IN
    IF Len(parts) = 1
    THEN [ok |-> TRUE, name |-> parts[1], some |-> FALSE, version |-> <<>>,
          err |-> NoResult]
    ELSE [ok |-> TRUE, name |-> parts[1], some |-> TRUE, version |-> parts[2],
          err |-> NoResult]

\* Result<(String, Option<String>), RegistryErrors>
extract_version_and_gatherer_name(gatherer_name) ==
    LET parts == split(gatherer_name) IN
    IF Len(parts) = 1
    THEN [ok |-> TRUE, name |-> parts[1], some |-> FALSE, version |-> <<>>,
          err |-> NoResult]
    ELSE IF Len(parts) /= 2
    THEN [ok |-> FALSE, name |-> <<>>, some |-> FALSE, version |-> <<>>,
          err |-> GathererNameAndVersionError(gatherer_name)]
    ELSE [ok |-> TRUE, name |-> parts[1], some |-> TRUE, version |-> parts[2],
          err |-> NoResult]

\* get_latest_version_for_gatherer reporting an unknown name as a
\* malformed reference
get_latest_version_for_gatherer_WrongError(gatherers, name) ==
    IF name \in DOMAIN gatherers
    THEN LET versions == SortKeys(DOMAIN gatherers[name]) IN
         [ok |-> TRUE, version |-> versions[Len(versions)],
          panic |-> FALSE, err |-> NoResult]
    ELSE [ok |-> FALSE, version |-> <<>>, panic |-> FALSE,
          err |-> GathererNameAndVersionError(name)]

\* Result<String, RegistryErrors>; the unwrap of last() panics on a name
\* mapped to an empty version map
get_latest_version_for_gatherer(gatherers, name) ==
    IF name \in DOMAIN gatherers
    THEN LET versions == SortKeys(DOMAIN gatherers[name]) IN
         IF versions = <<>>
         THEN [ok |-> FALSE, version |-> <<>>, panic |-> TRUE, err |-> NoResult]
         ELSE [ok |-> TRUE, version |-> versions[Len(versions)],
               panic |-> FALSE, err |-> NoResult]
    ELSE [ok |-> FALSE, version |-> <<>>, panic |-> FALSE,
          err |-> GathererNotFoundError(name)]

\* the panic of unwrap() on None
Panic == [kind |-> "Panic", handle |-> 0, arg |-> <<>>]

\* version.unwrap_or(self.get_latest_version_for_gatherer(..)?): the
\* argument of unwrap_or is evaluated before unwrap_or is called, so the
\* latest version is looked up, and its error returned by `?`, also when the
\* reference names a version
get_gatherer(gatherers, name) ==
    LET ex == extract_version_and_gatherer_name(name) IN
    IF ~ex.ok THEN ex.err
    ELSE LET latest == get_latest_version_for_gatherer(gatherers, ex.name) IN
         IF latest.panic THEN Panic
         ELSE IF ~latest.ok THEN latest.err
         ELSE LET latest_version ==
                      IF ex.some THEN ex.version ELSE latest.version
              IN  IF /\ ex.name \in DOMAIN gatherers
                     /\ latest_version \in DOMAIN gatherers[ex.name]
                  THEN Ok(gatherers[ex.name][latest_version])
                  ELSE GathererNotFoundError(name)

\* sorted_versions.join("/")
RECURSIVE join(_)
join(strings) ==
    IF strings = <<>> THEN <<>>
    ELSE IF Len(strings) = 1 THEN strings[1]
    ELSE strings[1] \o <<47>> \o join(Tail(strings))

\* format!("{} - {}", gatherer_name, sorted_versions.join("/"))
inspect_line(gatherer_name, versions) ==
    gatherer_name \o <<32, 45, 32>> \o join(SortKeys(DOMAIN versions))

\* the orders in which a HashMap may yield its keys: every one
IterationOrders(m) ==
    {order \in [1..Cardinality(DOMAIN m) -> DOMAIN m] :
        \A i, j \in DOMAIN order : order[i] = order[j] => i = j}

\* inspect_gatherers for one iteration order of self.gatherers
inspect_gatherers(gatherers, order) ==
    [i \in DOMAIN order |-> inspect_line(order[i], gatherers[order[i]])]

----------------------------------------------------------------------------
(* GatherersRegistryBuilder *)

\* build_map with a new name given an empty version map, the registration
\* itself left out
RECURSIVE build_map_EmptyOnNewName(_, _)
build_map_EmptyOnNewName(gs, gatherers_map) ==
    IF gs = <<>> THEN gatherers_map
    ELSE LET e == Head(gs) IN
         build_map_EmptyOnNewName(Tail(gs),
             IF e.name \in DOMAIN gatherers_map
             THEN Insert(gatherers_map, e.name,
                         Insert(gatherers_map[e.name], e.version, e.handle))
             ELSE Insert(gatherers_map, e.name, EmptyMap))

\* the loop of build_registry over the registrations, in call order
RECURSIVE build_map(_, _)
build_map(gs, gatherers_map) ==
    IF gs = <<>> THEN gatherers_map
    ELSE LET e == Head(gs) IN
         build_map(Tail(gs),
             IF e.name \in DOMAIN gatherers_map
             THEN Insert(gatherers_map, e.name,
                         Insert(gatherers_map[e.name], e.version, e.handle))
             ELSE Insert(gatherers_map, e.name,
                         Insert(EmptyMap, e.version, e.handle)))

\* GatherersRegistryBuilder::new()
InitRegistry ==
    /\ builder = <<>>
    /\ addCalls = <<>>
    /\ registry = EmptyMap
    /\ regPhase = "building"
    /\ reference = <<>>
    /\ resolved = NoResult
    /\ inspected = <<>>

\* add_gatherer(name, version, gatherer): Arc::new makes a handle of its own
\* for every call; the handle is numbered by the call
add_gatherer(name, version) ==
    /\ regPhase = "building"
    /\ Len(builder) < MaxAdds
    /\ LET e == [name |-> name, version |-> version,
                 handle |-> Len(addCalls) + 1]
       IN  /\ builder' = Append(builder, e)
           /\ addCalls' = Append(addCalls, e)
    /\ UNCHANGED <<registry, regPhase, reference, resolved, inspected>>
    /\ UNCHANGED <<aggVars, evVars>>

\* build_registry(self): the builder is moved into the registry
build_registry ==
    /\ regPhase = "building"
    /\ registry' = build_map(builder, EmptyMap)
    /\ builder' = <<>>
    /\ regPhase' = "built"
    /\ UNCHANGED <<addCalls, reference, resolved, inspected>>
    /\ UNCHANGED <<aggVars, evVars>>

\* get_gatherer(self, name): the registry is moved into the call
GetGatherer(name) ==
    /\ regPhase = "built"
    /\ reference' = name
    /\ resolved' = get_gatherer(registry, name)
    /\ regPhase' = "resolved"
    /\ UNCHANGED <<builder, addCalls, registry, inspected>>
    /\ UNCHANGED <<aggVars, evVars>>

\* inspect_gatherers(self): the registry is moved into the call; the lines
\* come in the order the map yields its entries
InspectGatherers ==
    /\ regPhase = "built"
    /\ \E order \in IterationOrders(registry) :
           inspected' = inspect_gatherers(registry, order)
    /\ regPhase' = "inspected"
    /\ UNCHANGED <<builder, addCalls, registry, reference, resolved>>
    /\ UNCHANGED <<aggVars, evVars>>

----------------------------------------------------------------------------
(* Request aggregation *)

\* every sequence over S of length at most n
RECURSIVE SeqsUpTo(_, _)
SeqsUpTo(S, n) ==
    IF n = 0 THEN {<<>>}
    ELSE LET shorter == SeqsUpTo(S, n - 1) IN
         shorter \cup {Append(q, x) : q \in {r \in shorter : Len(r) = n - 1}, x \in S}

\* the agent id main() constructs the policy with
LocalAgentId == "host_id"

\* fact requests as the event carries them (the generated message type has
\* fields of its own besides the four the agent reads)
EventFactRequest(argument, check_id, gatherer, name) ==
    [argument |-> argument, check_id |-> check_id, gatherer |-> gatherer,
     name |-> name, special_fields |-> "default"]

EventFactRequests ==
    {EventFactRequest("arg1", "check1", "disk", "size"),
     EventFactRequest("arg2", "check1", "disk", "free"),
     EventFactRequest("arg1", "check1", "cpu", "cores")}

GathererNames == {r.gatherer : r \in EventFactRequests} \cup {"mem"}

\* FactsGatheringRequestedTarget
EventTarget(agent_id, fact_requests) ==
    [agent_id |-> agent_id, fact_requests |-> fact_requests]

\* the FactRequest made of one event request inside the flat_map
FactRequest(event_request) ==
    [argument |-> event_request.argument,
     check_id |-> event_request.check_id,
     gatherer |-> event_request.gatherer,
     name |-> event_request.name]

\* iter().map(..) over one target's fact_requests
RECURSIVE MapRequests(_)
MapRequests(event_requests) ==
    IF event_requests = <<>> THEN <<>>
    ELSE <<FactRequest(Head(event_requests))>> \o MapRequests(Tail(event_requests))

\* iter().flat_map(..).collect(): targets in order, each target's requests
\* in order
RECURSIVE FlatMap(_)
FlatMap(targets) ==
    IF targets = <<>> THEN <<>>
    ELSE MapRequests(Head(targets).fact_requests) \o FlatMap(Tail(targets))

\* GroupByGatherer as a grouping that skips a request its bucket already holds
RECURSIVE GroupByGatherer_Dedup(_, _)
GroupByGatherer_Dedup(fact_requests, fact_requests_for_gatherer) ==
    IF fact_requests = <<>> THEN fact_requests_for_gatherer
    ELSE LET request == Head(fact_requests)
             existing ==
                 IF request.gatherer \in DOMAIN fact_requests_for_gatherer
                 THEN fact_requests_for_gatherer[request.gatherer]
                 ELSE <<>>
             gatherer_requests ==
                 IF \E i \in DOMAIN existing : existing[i] = request
                 THEN existing
                 ELSE Append(existing, request)
         IN  GroupByGatherer_Dedup(Tail(fact_requests),
                 Insert(fact_requests_for_gatherer, request.gatherer,
                        gatherer_requests))

\* the for loop: the bucket of the request's gatherer (an empty one when the
\* key is new) is copied, the request pushed, and the copy inserted back
RECURSIVE GroupByGatherer(_, _)
GroupByGatherer(fact_requests, fact_requests_for_gatherer) ==
    IF fact_requests = <<>> THEN fact_requests_for_gatherer
    ELSE LET request == Head(fact_requests)
             gatherer_requests ==
                 Append(IF request.gatherer \in DOMAIN fact_requests_for_gatherer
                        THEN fact_requests_for_gatherer[request.gatherer]
                        ELSE <<>>,
                        request)
         IN  GroupByGatherer(Tail(fact_requests),
                 Insert(fact_requests_for_gatherer, request.gatherer,
                        gatherer_requests))

\* FactsGatheringRequest
map_fact_gathering_request_from_event(event_requests, execution_id, group_id) ==
    [execution_id |-> execution_id,
     group_id |-> group_id,
     facts_requests_by_gatherer |->
         GroupByGatherer(FlatMap(event_requests), EmptyMap)]

NoRequest ==
    [execution_id |-> "", group_id |-> "", facts_requests_by_gatherer |-> EmptyMap]

\* the argument tuples the function is applied to
AggInputs ==
    [event_requests :
         SeqsUpTo({EventTarget(LocalAgentId, rs) :
                      rs \in SeqsUpTo(EventFactRequests, MaxRequests)},
                  MaxTargets),
     execution_id : {"exec1", "exec2"},
     group_id : {"group1"}]

\* no call made
AggIdle ==
    /\ aggInput = [event_requests |-> <<>>, execution_id |-> "exec1",
                   group_id |-> "group1"]
    /\ aggPhase = "input"
    /\ aggResult = NoRequest

InitAggregator ==
    /\ aggInput \in AggInputs
    /\ aggPhase = "input"
    /\ aggResult = NoRequest

\* one call of map_fact_gathering_request_from_event
MapFactGatheringRequest ==
    /\ aggPhase = "input"
    /\ aggResult' = map_fact_gathering_request_from_event(
                        aggInput.event_requests, aggInput.execution_id,
                        aggInput.group_id)
    /\ aggPhase' = "mapped"
    /\ UNCHANGED aggInput
    /\ UNCHANGED <<regVars, evVars>>

----------------------------------------------------------------------------
(* Events policies *)

FACTS_GATHERING_REQUEST_EVENT_TYPE == "Trento.Checks.V1.FactsGatheringRequested"
REQUEST_EXECUTION_EVENT_TYPE == "Trento.Checks.V1.ExecutionRequested"

\* a raw event, by what the decoders of trento_contracts make of its bytes:
\* whether event_type_from_raw_bytes succeeds and with which tag, whether
\* event_data_from_event succeeds for the type the tag names, and the payload
RawEvent(envelope_ok, event_type, payload_ok, targets) ==
    [envelope_ok |-> envelope_ok, event_type |-> event_type,
     payload_ok |-> payload_ok, execution_id |-> "exec1",
     group_id |-> "group1", targets |-> targets]

\* targets of delivered events: one for the local agent, one for another
EventTargets ==
    {EventTarget(LocalAgentId,
                 <<EventFactRequest("arg1", "check1", "disk", "size"),
                   EventFactRequest("arg1", "check1", "cpu", "cores")>>),
     EventTarget("other_agent",
                 <<EventFactRequest("arg2", "check1", "disk", "free")>>)}

EventTypes ==
    {FACTS_GATHERING_REQUEST_EVENT_TYPE, REQUEST_EXECUTION_EVENT_TYPE,
     "Trento.Checks.V1.Unknown"}

\* the contents delivered: an undecodable envelope; each tag with an
\* undecodable payload; each tag with a payload that decodes
RawEvents ==
    {RawEvent(FALSE, "", FALSE, <<>>)}
    \cup {RawEvent(TRUE, t, FALSE, <<>>) : t \in EventTypes}
    \cup {RawEvent(TRUE, t, TRUE, <<>>) : t \in EventTypes}
    \cup {RawEvent(TRUE, FACTS_GATHERING_REQUEST_EVENT_TYPE, TRUE, ts) :
             ts \in SeqsUpTo(EventTargets, MaxEventTargets)}

\* what one handle_event call did: its Result, whether it called
\* event_data_from_event, the line it logged, and the requests it handed to
\* the next stage
Outcome(result, payload_decoded, log, handed_on) ==
    [result |-> result, payload_decoded |-> payload_decoded, log |-> log,
     handed_on |-> handed_on]

\* .iter().filter(|t| t.agent_id == self.agent_id).collect()
FilterTargets(targets, agent_id) ==
    LET ForAgent(t) == t.agent_id = agent_id IN SelectSeq(targets, ForAgent)

\* handle_event failing when no target is for the local agent
handle_event_EmptyIsError(agent_id, raw_event) ==
    IF ~raw_event.envelope_ok THEN Outcome("Err", FALSE, "", <<>>)
    ELSE IF raw_event.event_type = FACTS_GATHERING_REQUEST_EVENT_TYPE
    THEN IF ~raw_event.payload_ok THEN Outcome("Err", TRUE, "", <<>>)
         ELSE IF FilterTargets(raw_event.targets, agent_id) = <<>>
         THEN Outcome("Err", TRUE, "", <<>>)
         ELSE Outcome("Ok", TRUE, "execution requested event", <<>>)
    ELSE Outcome("Ok", FALSE, "unrecognized event type, skipping", <<>>)

\* handle_event decoding the payload before it looks at the event type
handle_event_DecodeFirst(agent_id, raw_event) ==
    IF ~raw_event.envelope_ok THEN Outcome("Err", FALSE, "", <<>>)
    ELSE IF ~raw_event.payload_ok THEN Outcome("Err", TRUE, "", <<>>)
    ELSE IF raw_event.event_type = FACTS_GATHERING_REQUEST_EVENT_TYPE
    THEN IF FilterTargets(raw_event.targets, agent_id) = <<>>
         THEN Outcome("Ok", TRUE, "execution requested for other agents, skipping", <<>>)
         ELSE Outcome("Ok", TRUE, "execution requested event", <<>>)
    ELSE Outcome("Ok", TRUE, "unrecognized event type, skipping", <<>>)

\* EventsPolicy::handle_event: no branch builds a FactsGatheringRequest or
\* calls map_fact_gathering_request_from_event
handle_event(agent_id, raw_event) ==
    IF ~raw_event.envelope_ok THEN Outcome("Err", FALSE, "", <<>>)
    ELSE IF raw_event.event_type = FACTS_GATHERING_REQUEST_EVENT_TYPE
    THEN IF ~raw_event.payload_ok THEN Outcome("Err", TRUE, "", <<>>)
         ELSE IF FilterTargets(raw_event.targets, agent_id) = <<>>
         THEN Outcome("Ok", TRUE, "execution requested for other agents, skipping", <<>>)
         ELSE Outcome("Ok", TRUE, "execution requested event", <<>>)
    ELSE Outcome("Ok", FALSE, "unrecognized event type, skipping", <<>>)

\* ProtobufEventsPolicy::handle_event
protobuf_handle_event(host_id, raw_event) ==
    IF ~raw_event.envelope_ok THEN Outcome("Err", FALSE, "", <<>>)
    ELSE IF raw_event.event_type = REQUEST_EXECUTION_EVENT_TYPE
    THEN IF ~raw_event.payload_ok THEN Outcome("Err", TRUE, "", <<>>)
         ELSE Outcome("Ok", TRUE, "Execution requested event", <<>>)
    ELSE Outcome("Ok", FALSE, "unrecognized event type, skipping", <<>>)

\* the implementations of handle_event the consumer may hold
Policies == {"EventsPolicy", "ProtobufEventsPolicy"}

\* self.policy.handle_event(content)
PolicyHandleEvent(p, raw_event) ==
    IF p = "EventsPolicy" THEN handle_event(LocalAgentId, raw_event)
    ELSE protobuf_handle_event(LocalAgentId, raw_event)

----------------------------------------------------------------------------
(* RabbitMQ consumer *)

NoDelivery == [delivery_tag |-> 0, content |-> RawEvent(FALSE, "", FALSE, <<>>)]

\* no consumer running
EvIdle ==
    /\ policy = "EventsPolicy"
    /\ queue = <<>>
    /\ nextTag = 1
    /\ pc = "idle"
    /\ current = NoDelivery
    /\ handled = <<>>
    /\ acks = <<>>

\* RabbitMqConsumer::new(events_policy), registered with manual_ack(true)
InitConsumer ==
    /\ policy \in Policies
    /\ queue = <<>>
    /\ nextTag = 1
    /\ pc = "idle"
    /\ current = NoDelivery
    /\ handled = <<>>
    /\ acks = <<>>

\* the broker delivers a message to the consumer's channel
Deliver(content) ==
    /\ pc /= "panicked"
    /\ nextTag <= MaxDeliveries
    /\ queue' = Append(queue, [delivery_tag |-> nextTag, content |-> content])
    /\ nextTag' = nextTag + 1
    /\ UNCHANGED <<policy, pc, current, handled, acks>>
    /\ UNCHANGED <<regVars, aggVars>>

\* ConsumeHandleEvent acknowledging only what the policy handled without error
ConsumeHandleEvent_AckOnlyOnOk ==
    /\ pc = "idle"
    /\ queue /= <<>>
    /\ LET deliver == Head(queue)
           outcome == PolicyHandleEvent(policy, deliver.content)
       IN  /\ current' = deliver
           /\ handled' = Append(handled,
                  [delivery_tag |-> deliver.delivery_tag,
                   content |-> deliver.content, outcome |-> outcome])
           /\ pc' = IF outcome.result = "Ok" THEN "acking" ELSE "idle"
    /\ queue' = Tail(queue)
    /\ UNCHANGED <<policy, nextTag, acks>>
    /\ UNCHANGED <<regVars, aggVars>>

\* consume, up to its second await: the next delivery is taken,
\* handle_event runs on its content and its Result is logged
ConsumeHandleEvent ==
    /\ pc = "idle"
    /\ queue /= <<>>
    /\ LET deliver == Head(queue)
           outcome == PolicyHandleEvent(policy, deliver.content)
       IN  /\ current' = deliver
           /\ handled' = Append(handled,
                  [delivery_tag |-> deliver.delivery_tag,
                   content |-> deliver.content, outcome |-> outcome])
           /\ pc' = "acking"
    /\ queue' = Tail(queue)
    /\ UNCHANGED <<policy, nextTag, acks>>
    /\ UNCHANGED <<regVars, aggVars>>

\* consume, its end: basic_ack(delivery_tag, multiple = false); expect()
\* panics when the channel reports the ack failed
ConsumeAck ==
    /\ pc = "acking"
    /\ acks' = Append(acks, [delivery_tag |-> current.delivery_tag,
                             multiple |-> FALSE])
    /\ \E ack_ok \in BOOLEAN :
           pc' = IF ack_ok THEN "idle" ELSE "panicked"
    /\ current' = NoDelivery
    /\ UNCHANGED <<policy, queue, nextTag, handled>>
    /\ UNCHANGED <<regVars, aggVars>>

----------------------------------------------------------------------------
(* Specifications *)

NextRegistry ==
    \/ \E name \in AddNames, version \in Versions : add_gatherer(name, version)
    \/ build_registry
    \/ \E name \in References : GetGatherer(name)
    \/ InspectGatherers

\* the builder and the registry, from GatherersRegistryBuilder::new()
InitSpecRegistry == InitRegistry /\ AggIdle /\ EvIdle
SpecRegistry == InitSpecRegistry /\ [][NextRegistry]_vars

NextAggregator == MapFactGatheringRequest

\* map_fact_gathering_request_from_event applied to each of AggInputs
InitSpecAggregator == InitAggregator /\ InitRegistry /\ EvIdle
SpecAggregator == InitSpecAggregator /\ [][NextAggregator]_vars

NextEvents ==
    \/ \E content \in RawEvents : Deliver(content)
    \/ ConsumeHandleEvent
    \/ ConsumeAck

\* the consumer, fed by the broker, with either policy
InitSpecEvents == InitConsumer /\ InitRegistry /\ AggIdle
SpecEvents == InitSpecEvents /\ [][NextEvents]_vars

----------------------------------------------------------------------------
(* Registry claims *)

\* a get_gatherer call has returned
Resolved == regPhase = "resolved"

\* the add_gatherer calls made with (name, version), by position
CallsOf(name, version) ==
    {i \in DOMAIN addCalls :
        addCalls[i].name = name /\ addCalls[i].version = version}

\* the names and, per name, the versions add_gatherer was called with
AddedNames == {addCalls[i].name : i \in DOMAIN addCalls}
AddedVersions(name) ==
    {addCalls[i].version : i \in {j \in DOMAIN addCalls : addCalls[j].name = name}}

\* the handle made by the last add_gatherer call with (name, version)
LastHandle(name, version) ==
    LET last == CHOOSE i \in CallsOf(name, version) :
                    \A j \in CallsOf(name, version) : j <= i
    IN  addCalls[last].handle

\* the part of a reference before its first separator
NamePart(ref) == split(ref)[1]

\* C3: for a reference "name@version" (exactly one '@') whose name has no
\* registration at all, get_gatherer fails with GathererNotFoundError
\* carrying the whole reference "name@version", not the bare name.
\* (the claim as stated; the code returns the bare name)
C3_NotFoundCarriesReference ==
    (/\ Resolved
     /\ CountSep(reference) = 1
     /\ NamePart(reference) \notin AddedNames)
    => resolved = GathererNotFoundError(reference)

\* C4: get_gatherer with a bare registered name returns the handle
\* registered under the lexicographically maximal version registered for
\* that name (string order, not numeric): of {"v1","v2"} it is "v2", of
\* {"v9","v10"} it is "v9".
C4_BareNameSelectsLexMax ==
    (/\ Resolved
     /\ CountSep(reference) = 0
     /\ reference \in AddedNames)
    => /\ resolved.kind = "Ok"
       /\ \E v \in AddedVersions(reference) :
            /\ \A w \in AddedVersions(reference) : w = v \/ StrLess(w, v)
            /\ resolved = Ok(LastHandle(reference, v))
       /\ AddedVersions(reference) = {V1, V2}
            => resolved = Ok(LastHandle(reference, V2))
       /\ AddedVersions(reference) = {V9, V10}
            => resolved = Ok(LastHandle(reference, V9))

\* C4 witness: "g" is registered under exactly "v9" and "v10" and
\* get_gatherer("g") has returned the handle added under "v9"
C4_Witness ==
    /\ Resolved
    /\ reference = NameG
    /\ AddedVersions(NameG) = {V9, V10}
    /\ resolved = Ok(LastHandle(NameG, V9))

\* C5: for every (name, version) added (neither holding '@'),
\* get_gatherer("name@version") on the built registry returns the handle of
\* the last add_gatherer call made with that pair; an earlier registration
\* of the pair is overwritten.
C5_ResolveRoundTrip ==
    Resolved =>
        \A i \in DOMAIN addCalls :
            (/\ CountSep(addCalls[i].name) = 0
             /\ CountSep(addCalls[i].version) = 0
             /\ reference = Join(addCalls[i].name, addCalls[i].version))
            => resolved = Ok(LastHandle(addCalls[i].name, addCalls[i].version))

\* C5 witness: ("g", "v1") was added twice, another version of "g" between
\* the two, and get_gatherer("g@v1") has returned the handle of the later call
C5_Witness ==
    /\ Resolved
    /\ reference = Join(NameG, V1)
    /\ Len(addCalls) = 3
    /\ CallsOf(NameG, V1) = {1, 3}
    /\ addCalls[2].name = NameG
    /\ resolved = Ok(3)

\* C6: for every reference with more than one '@', whatever the registry
\* holds, get_gatherer fails with GathererNameAndVersionError carrying the
\* whole reference unchanged (no handle, no not-found error).
C6_TooManySeparators ==
    (Resolved /\ CountSep(reference) > 1)
    => resolved = GathererNameAndVersionError(reference)

\* C6 witness: "g@v1" is registered under "v2" and get_gatherer("g@v1@v2")
\* has failed with the name format error
C6_Witness ==
    /\ Resolved
    /\ reference = Join(NameGAtV1, V2)
    /\ CallsOf(NameGAtV1, V2) /= {}
    /\ resolved.kind = "GathererNameAndVersionError"

\* C10: for every reference without '@' whose name has no registration
\* (the empty registry included), get_gatherer fails with
\* GathererNotFoundError carrying that name.
C10_BareNameNotFound ==
    (/\ Resolved
     /\ CountSep(reference) = 0
     /\ reference \notin AddedNames)
    => resolved = GathererNotFoundError(reference)

\* C10 witness: "g" and "h" are registered and get_gatherer("other") has
\* failed with the not-found error
C10_Witness ==
    /\ Resolved
    /\ reference = NameOther
    /\ {NameG, NameH} \subseteq AddedNames
    /\ resolved.kind = "GathererNotFoundError"

\* the versions of a set in ascending string order, each once
Ascending(S) ==
    CHOOSE q \in [1..Cardinality(S) -> S] :
        \A i, j \in DOMAIN q : i < j => StrLess(q[i], q[j])

\* "<name> - <v1>/<v2>/..." for the versions add_gatherer was called with
ExpectedLine(name) ==
    name \o <<32, 45, 32>> \o join(Ascending(AddedVersions(name)))

\* C11: after any add_gatherer calls and build_registry, inspect_gatherers
\* returns exactly one line per distinct registered name, of the form
\* "<name> - <v1>/<v2>/...", listing every distinct version registered for
\* the name exactly once in ascending lexicographic order and no other
\* version ("g" under v1 and v2 gives "g - v1/v2", under v9 and v10 gives
\* "g - v10/v9").
C11_InspectListsSortedVersions ==
    regPhase = "inspected" =>
        /\ Len(inspected) = Cardinality(AddedNames)
        /\ \A n \in AddedNames :
             Cardinality({i \in DOMAIN inspected : inspected[i] = ExpectedLine(n)}) = 1
        /\ \A i \in DOMAIN inspected :
             \E n \in AddedNames : inspected[i] = ExpectedLine(n)
        /\ AddedVersions(NameG) = {V1, V2}
             => \E i \in DOMAIN inspected :
                    inspected[i] = <<103, 32, 45, 32, 118, 49, 47, 118, 50>>
        /\ AddedVersions(NameG) = {V9, V10}
             => \E i \in DOMAIN inspected :
                    inspected[i] = <<103, 32, 45, 32, 118, 49, 48, 47, 118, 57>>

\* C11 witness: "g" was added under "v9" and then "v10", "h" under one
\* version, and inspect_gatherers has returned "g - v10/v9" as its second
\* line of two
C11_Witness ==
    /\ regPhase = "inspected"
    /\ Len(addCalls) = 3
    /\ addCalls[1].name = NameG /\ addCalls[1].version = V9
    /\ addCalls[2].name = NameG /\ addCalls[2].version = V10
    /\ addCalls[3].name = NameH
    /\ Len(inspected) = 2
    /\ inspected[2] = <<103, 32, 45, 32, 118, 49, 48, 47, 118, 57>>

\* C12: in every registry build_registry produces, every name present as a
\* key maps to a non-empty version map; so the unwrap of the last sorted
\* version never panics, and get_gatherer returns a handle or a
\* RegistryErrors value for every input string.
C12_NoEmptyVersionMap ==
    /\ \A n \in DOMAIN registry : DOMAIN registry[n] /= {}
    /\ regPhase /= "building" => DOMAIN registry = AddedNames
    /\ Resolved =>
         resolved.kind \in
             {"Ok", "GathererNotFoundError", "GathererNameAndVersionError"}

\* C12 witness: "g" and "h" are keys of the built registry and
\* get_gatherer("h") has gone through the sort and the unwrap to a handle
C12_Witness ==
    /\ Resolved
    /\ {NameG, NameH} \subseteq DOMAIN registry
    /\ reference = NameH
    /\ resolved.kind = "Ok"

----------------------------------------------------------------------------
(* Aggregation claims *)

\* the flattened request sequence of the input, in the agent's own type
Flattened == FlatMap(aggInput.event_requests)

\* the subsequence of a sequence of requests whose gatherer is g
OfGatherer(requests, g) ==
    LET Is(r) == r.gatherer = g IN SelectSeq(requests, Is)

\* C1: for every gatherer name G, the bucket facts_requests_by_gatherer[G]
\* is exactly the subsequence of the flattened request sequence (targets in
\* order, then requests within each target in order) whose gatherer is G,
\* with the same order and multiplicity; a key G exists only if at least one
\* input request has gatherer G; so every request is in exactly one bucket,
\* none dropped or duplicated.
C1_BucketsPartitionRequests ==
    aggPhase = "mapped" =>
        LET buckets == aggResult.facts_requests_by_gatherer IN
        /\ DOMAIN buckets = {Flattened[i].gatherer : i \in DOMAIN Flattened}
        /\ \A g \in GathererNames :
             /\ g \in DOMAIN buckets => buckets[g] = OfGatherer(Flattened, g)
             /\ g \notin DOMAIN buckets => OfGatherer(Flattened, g) = <<>>
        /\ \A g \in DOMAIN buckets :
             \A i \in DOMAIN buckets[g] : buckets[g][i].gatherer = g
        /\ aggResult.execution_id = aggInput.execution_id
        /\ aggResult.group_id = aggInput.group_id

\* C1 witness: two targets, the first asking "disk" for the same fact twice,
\* the second asking "cpu" and then "disk"; the "disk" bucket holds the two
\* identical requests and then the second target's, the "cpu" bucket one
C1_Witness ==
    /\ aggPhase = "mapped"
    /\ Len(aggInput.event_requests) = 2
    /\ LET buckets == aggResult.facts_requests_by_gatherer IN
       /\ DOMAIN buckets = {"disk", "cpu"}
       /\ Len(buckets["disk"]) = 3
       /\ buckets["disk"][1] = buckets["disk"][2]
       /\ buckets["disk"][3].name = "free"
       /\ Len(buckets["cpu"]) = 1
    /\ aggInput.event_requests[2].fact_requests[1].gatherer = "cpu"

----------------------------------------------------------------------------
(* Events claims *)

\* the event decodes as a gathering request: envelope and payload both
DecodesAsGatheringRequest(raw_event) ==
    /\ raw_event.envelope_ok
    /\ raw_event.event_type = FACTS_GATHERING_REQUEST_EVENT_TYPE
    /\ raw_event.payload_ok

\* at least one target of the event is for the agent
HasTargetFor(raw_event, agent_id) ==
    \E i \in DOMAIN raw_event.targets : raw_event.targets[i].agent_id = agent_id

\* the event type a policy recognizes
RecognizedType(p) ==
    IF p = "EventsPolicy" THEN FACTS_GATHERING_REQUEST_EVENT_TYPE
    ELSE REQUEST_EXECUTION_EVENT_TYPE

\* C2: whenever EventsPolicy::handle_event receives a gathering-request
\* event with at least one target for the local agent, it builds the
\* FactsGatheringRequest of the filtered targets (in their order), the
\* payload's execution_id and group_id, and hands it to the next stage
\* before returning success.
\* (the claim as stated; the code logs and returns without building it)
C2_MatchingEventHandsOnRequest ==
    \A i \in DOMAIN handled :
        (/\ policy = "EventsPolicy"
         /\ DecodesAsGatheringRequest(handled[i].content)
         /\ HasTargetFor(handled[i].content, LocalAgentId))
        => /\ handled[i].outcome.result = "Ok"
           /\ handled[i].outcome.handed_on =
                <<map_fact_gathering_request_from_event(
                      FilterTargets(handled[i].content.targets, LocalAgentId),
                      handled[i].content.execution_id,
                      handled[i].content.group_id)>>

\* C7: for every gathering-request event that decodes and in which no
\* target is for the local agent, handle_event returns success and produces
\* no aggregated request.
C7_NotForLocalAgentIsSuccess ==
    \A i \in DOMAIN handled :
        (/\ policy = "EventsPolicy"
         /\ DecodesAsGatheringRequest(handled[i].content)
         /\ ~HasTargetFor(handled[i].content, LocalAgentId))
        => /\ handled[i].outcome.result = "Ok"
           /\ handled[i].outcome.handed_on = <<>>

\* C7 witness: a gathering request whose two targets are both for another
\* agent has been handled by the EventsPolicy
C7_Witness ==
    \E i \in DOMAIN handled :
        /\ policy = "EventsPolicy"
        /\ DecodesAsGatheringRequest(handled[i].content)
        /\ Len(handled[i].content.targets) = 2
        /\ ~HasTargetFor(handled[i].content, LocalAgentId)
        /\ handled[i].outcome.result = "Ok"

\* C8: for every event whose envelope decodes to a tag other than the type
\* the policy recognizes, handle_event returns success, does not decode the
\* payload, and produces no aggregated request (both policies).
C8_UnrecognizedTypeIsSuccess ==
    \A i \in DOMAIN handled :
        (/\ handled[i].content.envelope_ok
         /\ handled[i].content.event_type /= RecognizedType(policy))
        => /\ handled[i].outcome.result = "Ok"
           /\ ~handled[i].outcome.payload_decoded
           /\ handled[i].outcome.handed_on = <<>>

\* C8 witness: the EventsPolicy has handled an event of an unknown type
\* whose payload would not decode, and returned success
C8_Witness ==
    \E i \in DOMAIN handled :
        /\ policy = "EventsPolicy"
        /\ handled[i].content.envelope_ok
        /\ handled[i].content.event_type = "Trento.Checks.V1.Unknown"
        /\ ~handled[i].content.payload_ok
        /\ handled[i].outcome.result = "Ok"

\* C9: for every message delivered, consume invokes handle_event exactly
\* once on the content and then acknowledges that delivery's tag exactly
\* once, after handle_event has completed, whatever it returned: the
\* handle_event calls are the deliveries taken so far, one each and in order;
\* the acks are those same tags in the same order, each alone
\* (multiple = false); and a handled delivery is unacknowledged only while
\* consume is at its ack, also when handle_event returned an error.
C9_HandleOnceThenAckOnce ==
    /\ Len(handled) + Len(queue) = nextTag - 1
    /\ \A i \in DOMAIN handled : handled[i].delivery_tag = i
    /\ \A i \in DOMAIN queue :
         queue[i].delivery_tag = Len(handled) + i
    /\ Len(acks) <= Len(handled)
    /\ \A i \in DOMAIN acks :
         /\ acks[i].delivery_tag = handled[i].delivery_tag
         /\ ~acks[i].multiple
    /\ Len(handled) - Len(acks) \in {0, 1}
    /\ (Len(handled) - Len(acks) = 1)
         <=> (/\ pc = "acking"
              /\ current.delivery_tag = handled[Len(handled)].delivery_tag
              /\ current.content = handled[Len(handled)].content)

\* C9 witness: the first delivery's handle_event returned an error and was
\* acknowledged, and the second has been handled after it
C9_Witness ==
    /\ Len(handled) = 2
    /\ handled[1].outcome.result = "Err"
    /\ Len(acks) >= 1
    /\ acks[1].delivery_tag = 1

====
